---- MODULE Spec2Model ----
(***************************************************************************)
(* Client-side synchronization engine of chatty: the result cache, the     *)
(* mutation patches (update functions), the subscription reducers          *)
(* (updateQuery), the batching network interface and its auth middleware   *)
(* and afterware.                                                          *)
(***************************************************************************)
EXTENDS Integers, Sequences, FiniteSets, TLC

\* ------------------------------------------------------------------ bounds
\* changes made to the data in one run: the user's mutations and the changes
\* of other participants, taken together
MaxChanges == 2
MaxDocId == 2
\* queries issued in one run
MaxCallers == 3
\* subscriptions opened in one run
MaxHandles == 3
\* events published to the channel in one run
MaxEvents == 2

\* ------------------------------------------------------- program constants
SentinelId == 0 - 1
NullId == 0
NoJwt == "none"
Unauthorized == "Unauthorized"
OtherError == "Other"
NetworkError == "Network request failed"
Texts == {"hi", "yo"}
FreshJwt == "t2"

VARIABLES
  userCache,    \* USER_QUERY {id: 1}: user.groups, a sequence of [id, messages]
  groupCache,   \* GROUP_QUERY {groupId}: group.messages, per group id
  optimistic,   \* optimistic layers of the pending mutations, in issue order
  window,       \* operations collected in the current batching window
  network,      \* batches in flight
  pushes,       \* subscription events in flight on the socket, in order
  server,       \* [nextMsgId, nextGroupId, groups]
  jwt,          \* store.getState().auth.jwt
  nextMid,      \* next mutation id
  foreign,      \* number of changes made by other participants
  delivered,    \* the events that have reached their reducer, as <<type, id>>
  settled,      \* how the callers of the last completed batch settled, by position
  dispatched,   \* how many times the last afterware run dispatched logout()
  effects,      \* what the last afterware run did, in the order it did it
  call,         \* a single call of a reducer: its arguments and what it returned
  submissions,  \* per mutation id: how many times its request went on the network
  settlements,  \* per mutation id: how many times its caller was settled
  fetches,      \* the queries of the transport: [window, flight, results, nextCaller]
  propsUser,    \* this.props.user of AppWithNavigationState
  groupSubscription,     \* this.groupSubscription: 0 (undefined) or a handle
  messagesSubscription,  \* this.messagesSubscription: 0 (undefined) or a handle
  channel,      \* the subscription client: [handles, nextHandle, socket]
  wire,         \* events in flight on the socket, each for one handle
  unsubscribed, \* the handles the component has called: [once, again]
  published,    \* number of events the server has published to the channel
  lost          \* the events published while the socket was not open, as <<type, id>>

\* the variables of the subscription side: the component and the channel
channelVars == <<propsUser, groupSubscription, messagesSubscription, channel,
                 wire, unsubscribed, published, lost>>

\* the variables of the mutation side: the transport, the engine, the server
mutationVars == <<groupCache, optimistic, window, network, pushes, server,
                  nextMid, foreign, settled, dispatched, effects, submissions,
                  settlements>>

vars == <<userCache, groupCache, optimistic, window, network, pushes, server,
          jwt, nextMid, foreign, delivered, settled, dispatched, effects, call,
          submissions, settlements, fetches, channelVars>>

GroupIds == 1..(1 + MaxChanges)
Mids == 1..MaxChanges

\* ----------------------------------------------------------- array helpers
RECURSIVE FilterOutId(_, _)
\* groups.filter(g => id !== g.id)
FilterOutId(s, id) ==
  IF s = <<>> THEN <<>>
  ELSE IF Head(s).id # id
       THEN <<Head(s)>> \o FilterOutId(Tail(s), id)
       ELSE FilterOutId(Tail(s), id)

RECURSIVE IndexOfId(_, _, _)
\* map(groups, 'id').indexOf(id), 1-based; 0 stands for -1 (not found)
IndexOfId(s, id, i) ==
  IF i > Len(s) THEN 0
  ELSE IF s[i].id = id THEN i ELSE IndexOfId(s, id, i + 1)

SomeId(docs, id) == \E i \in 1..Len(docs) : docs[i].id = id

\* ------------------------------------------------------- duplicate checks
\* a check with === null in place of !== null: never a match for a real id
isDuplicateDocumentNever(newDocument, existingDocuments) ==
  newDocument.id = NullId /\ SomeId(existingDocuments, newDocument.id)

\* a check without the test for a null id
isDuplicateDocumentAnyId(newDocument, existingDocuments) ==
  SomeId(existingDocuments, newDocument.id)

\* navigation.js: isDuplicateDocument(newDocument, existingDocuments)
isDuplicateDocument(newDocument, existingDocuments) ==
  newDocument.id # NullId /\ SomeId(existingDocuments, newDocument.id)

\* a check with || in place of &&: every message with an id is a duplicate
isDuplicateMessageOr(newMessage, existingMessages) ==
  newMessage.id # NullId \/ SomeId(existingMessages, newMessage.id)

\* messages.screen.js: isDuplicateMessage(newMessage, existingMessages)
isDuplicateMessage(newMessage, existingMessages) ==
  newMessage.id # NullId /\ SomeId(existingMessages, newMessage.id)

\* a check that looks for a null id among the existing groups: never a match
isDuplicateGroupNever(newGroup, existingGroups) ==
  newGroup.id # NullId /\ SomeId(existingGroups, NullId)

\* finalize-group.screen.js: isDuplicateGroup(newGroup, existingGroups)
isDuplicateGroup(newGroup, existingGroups) ==
  newGroup.id # NullId /\ SomeId(existingGroups, newGroup.id)

\* ------------------------------------------------------ mutation patches
\* createMessage: optimisticResponse.createMessage
optimisticResponse(text, groupId) ==
  [id |-> SentinelId, text |-> text, to |-> groupId]

\* an update that changes the data it read and omits store.writeQuery
createMessageUpdateNoWrite(store, groupId, createMessage) == store

\* an update that adds the message at the end
createMessageUpdatePush(store, groupId, createMessage) ==
  IF isDuplicateMessage(createMessage, store[groupId])
  THEN store
  ELSE [store EXCEPT ![groupId] = Append(@, createMessage)]

\* createMessage: update(store, {data: {createMessage}}) on GROUP_QUERY {groupId}
createMessageUpdate(store, groupId, createMessage) ==
  IF isDuplicateMessage(createMessage, store[groupId])
  THEN store
  ELSE [store EXCEPT ![groupId] = <<createMessage>> \o @]

\* createGroup: update(store, {data: {createGroup}}) on USER_QUERY
createGroupUpdate(groups, createGroup) ==
  IF isDuplicateGroup(createGroup, groups)
  THEN groups
  ELSE Append(groups, createGroup)

\* an update that takes the returned id for a position in the list
deleteGroupUpdateByIndex(groups, deleteGroup) ==
  IF deleteGroup.id \in 1..Len(groups)
  THEN SubSeq(groups, 1, deleteGroup.id - 1) \o
       SubSeq(groups, deleteGroup.id + 1, Len(groups))
  ELSE groups

\* deleteGroup: update(store, {data: {deleteGroup}}) on USER_QUERY
deleteGroupUpdate(groups, deleteGroup) == FilterOutId(groups, deleteGroup.id)

\* leaveGroup: update(store, {data: {leaveGroup}}) on USER_QUERY
leaveGroupUpdate(groups, leaveGroup) == FilterOutId(groups, leaveGroup.id)

\* -------------------------------------------------- subscription reducers
\* The result of a reducer: the new cache result, or a raised TypeError
\* (the cache then keeps the previous result).
Threw(r) == r.threw

\* a reducer without the duplicate check
messageAddedUpdateQueryNoCheck(previousGroups, newMessage) ==
  LET groupIndex == IndexOfId(previousGroups, newMessage.to, 1) IN
  IF groupIndex = 0
  THEN [threw |-> TRUE, groups |-> previousGroups]
  ELSE [threw |-> FALSE,
        groups |-> [previousGroups EXCEPT
                      ![groupIndex].messages = <<newMessage>>]]

\* a reducer that writes the new message into every group
messageAddedUpdateQueryEveryGroup(previousGroups, newMessage) ==
  LET groupIndex == IndexOfId(previousGroups, newMessage.to, 1) IN
  IF groupIndex = 0
  THEN [threw |-> TRUE, groups |-> previousGroups]
  ELSE IF isDuplicateDocument(newMessage, previousGroups[groupIndex].messages)
       THEN [threw |-> FALSE, groups |-> previousGroups]
       ELSE [threw |-> FALSE,
             groups |-> [i \in 1..Len(previousGroups) |->
                           [previousGroups[i] EXCEPT !.messages = <<newMessage>>]]]

\* subscribeToMessages: updateQuery(previousResult, {subscriptionData})
messageAddedUpdateQuery(previousGroups, newMessage) ==
  LET groupIndex == IndexOfId(previousGroups, newMessage.to, 1) IN
  IF groupIndex = 0
  THEN [threw |-> TRUE, groups |-> previousGroups]
  ELSE IF isDuplicateDocument(newMessage, previousGroups[groupIndex].messages)
       THEN [threw |-> FALSE, groups |-> previousGroups]
       ELSE [threw |-> FALSE,
             groups |-> [previousGroups EXCEPT
                           ![groupIndex].messages = <<newMessage>>]]

\* a reducer that puts the new group in front
groupAddedUpdateQueryUnshift(previousGroups, newGroup) ==
  IF isDuplicateDocument(newGroup, previousGroups)
  THEN [threw |-> FALSE, groups |-> previousGroups]
  ELSE [threw |-> FALSE, groups |-> <<newGroup>> \o previousGroups]

\* subscribeToGroups: updateQuery(previousResult, {subscriptionData})
groupAddedUpdateQuery(previousGroups, newGroup) ==
  IF isDuplicateDocument(newGroup, previousGroups)
  THEN [threw |-> FALSE, groups |-> previousGroups]
  ELSE [threw |-> FALSE, groups |-> Append(previousGroups, newGroup)]

\* ------------------------------------------------------ optimistic layers
RECURSIVE ApplyLayers(_, _)
\* the patches of the pending optimistic responses, re-run in issue order
\* on top of the confirmed data
ApplyLayers(store, layers) ==
  IF layers = <<>> THEN store
  ELSE ApplyLayers(
         createMessageUpdate(store, Head(layers).groupId, Head(layers).response),
         Tail(layers))

\* a removal that drops nothing
RemoveLayerNone(layers, mid) == layers

RECURSIVE RemoveLayer(_, _)
RemoveLayer(layers, mid) ==
  IF layers = <<>> THEN <<>>
  ELSE IF Head(layers).mid = mid
       THEN RemoveLayer(Tail(layers), mid)
       ELSE <<Head(layers)>> \o RemoveLayer(Tail(layers), mid)

\* what the UI reads for GROUP_QUERY: confirmed data plus optimistic layers
Visible == ApplyLayers(groupCache, optimistic)

NoCall == [fn |-> "none"]

\* ------------------------------------------------------- auth interceptor
\* a middleware that sets the header whether or not there is a token
applyBatchMiddlewareAlways(token) == <<"Bearer", token>>

\* applyBatchMiddleware(req, next): the authorization header of the batch
applyBatchMiddleware(token) ==
  IF token # NoJwt THEN <<"Bearer", token>> ELSE <<>>

\* a scan that takes any error for the marker
SomeUnauthorizedAnyError(errors) == errors # <<>>

\* _.some(response.errors, {message: 'Unauthorized'})
SomeUnauthorized(errors) == \E i \in 1..Len(errors) : errors[i] = Unauthorized

RECURSIVE ScanResponses(_, _)
\* responses.forEach(...): the value of isUnauthorized after the loop
ScanResponses(responses, isUnauthorized) ==
  IF responses = <<>> THEN isUnauthorized
  ELSE ScanResponses(Tail(responses),
         IF Head(responses).errors # <<>> /\ SomeUnauthorized(Head(responses).errors)
         THEN TRUE ELSE isUnauthorized)

\* an afterware that dispatches logout() inside the loop, per marked response
applyBatchAfterwarePerResponse(responses) ==
  [dispatched |-> Cardinality({i \in 1..Len(responses) :
                    SomeUnauthorized(responses[i].errors)}),
   next |-> TRUE, responses |-> responses,
   effects |-> [i \in 1..(1 + Cardinality({k \in 1..Len(responses) :
                                  SomeUnauthorized(responses[k].errors)})) |->
                  IF i <= Cardinality({k \in 1..Len(responses) :
                                         SomeUnauthorized(responses[k].errors)})
                  THEN "logout" ELSE "next"]]

\* an afterware that returns after the dispatch without calling next()
applyBatchAfterwareNoNext(responses) ==
  LET isUnauthorized == ScanResponses(responses, FALSE) IN
  [dispatched |-> IF isUnauthorized THEN 1 ELSE 0, next |-> ~isUnauthorized,
   responses |-> responses,
   effects |-> IF isUnauthorized THEN <<"logout">> ELSE <<"next">>]

\* an afterware that never calls next()
applyBatchAfterwareNeverNext(responses) ==
  LET isUnauthorized == ScanResponses(responses, FALSE) IN
  [dispatched |-> IF isUnauthorized THEN 1 ELSE 0, next |-> FALSE,
   responses |-> responses,
   effects |-> IF isUnauthorized THEN <<"logout">> ELSE <<>>]

\* an afterware that calls next() first and dispatches logout() after it
applyBatchAfterwareNextFirst(responses) ==
  LET isUnauthorized == ScanResponses(responses, FALSE) IN
  [dispatched |-> IF isUnauthorized THEN 1 ELSE 0, next |-> TRUE,
   responses |-> responses,
   effects |-> IF isUnauthorized THEN <<"next", "logout">> ELSE <<"next">>]

\* applyBatchAfterware({responses}, next): how many times logout() is
\* dispatched, whether next() is called, the responses next() goes on with,
\* and the two calls in the order they are made
applyBatchAfterware(responses) ==
  LET isUnauthorized == ScanResponses(responses, FALSE) IN
  [dispatched |-> IF isUnauthorized THEN 1 ELSE 0, next |-> TRUE,
   responses |-> responses,
   effects |-> IF isUnauthorized THEN <<"logout", "next">> ELSE <<"next">>]

\* ----------------------------------------------------------------- server
NoData == [id |-> NullId]
ErrorLists == {<<>>, <<OtherError>>, <<OtherError, Unauthorized>>}

\* can the resolver of the operation succeed on the server's data
Resolvable(sv, op) ==
  CASE op.kind = "createMessage" -> TRUE
    [] op.kind = "createGroup" -> TRUE
    [] OTHER -> op.groupId \in sv.groups

RECURSIVE ServerRun(_, _, _, _)
\* the resolvers of the operations of a batch, in order; acc collects the
\* server's data, the responses and the published events
ServerRun(acc, ops, errs, i) ==
  IF i > Len(ops) THEN acc
  ELSE
    LET op == ops[i]
        sv == acc.server
        errors == IF errs[i] = <<>> /\ ~Resolvable(sv, op)
                  THEN <<OtherError>> ELSE errs[i]
        msg == [id |-> sv.nextMsgId, text |-> op.text, to |-> op.groupId]
        grp == [id |-> sv.nextGroupId, messages |-> <<>>]
    IN
    IF errors # <<>>
    THEN ServerRun([acc EXCEPT !.responses =
                      Append(@, [data |-> NoData, errors |-> errors])],
                   ops, errs, i + 1)
    ELSE CASE op.kind = "createMessage" ->
                ServerRun([server |-> [sv EXCEPT !.nextMsgId = @ + 1],
                           responses |-> Append(acc.responses,
                                           [data |-> msg, errors |-> <<>>]),
                           events |-> IF op.groupId \in sv.groups
                                      THEN Append(acc.events,
                                             [type |-> "messageAdded", doc |-> msg])
                                      ELSE acc.events],
                          ops, errs, i + 1)
           [] op.kind = "createGroup" ->
                ServerRun([server |-> [sv EXCEPT !.nextGroupId = @ + 1,
                                                 !.groups = @ \cup {sv.nextGroupId}],
                           responses |-> Append(acc.responses,
                                           [data |-> grp, errors |-> <<>>]),
                           events |-> Append(acc.events,
                                        [type |-> "groupAdded", doc |-> grp])],
                          ops, errs, i + 1)
           [] OTHER ->
                ServerRun([acc EXCEPT
                             !.server.groups = @ \ {op.groupId},
                             !.responses = Append(@,
                                [data |-> [id |-> op.groupId], errors |-> <<>>])],
                          ops, errs, i + 1)

\* ------------------------------------------------ mutation reconciliation
\* a success that writes the result and leaves the optimistic layer in place
MutationResultKeepsLayer(st, op, data) ==
  [userCache |->
     CASE op.kind = "createGroup" -> createGroupUpdate(st.userCache, data)
       [] op.kind = "deleteGroup" -> deleteGroupUpdate(st.userCache, data)
       [] op.kind = "leaveGroup" -> leaveGroupUpdate(st.userCache, data)
       [] OTHER -> st.userCache,
   groupCache |->
     IF op.kind = "createMessage"
     THEN createMessageUpdate(st.groupCache, op.groupId, data)
     ELSE st.groupCache,
   optimistic |-> st.optimistic,
   settled |-> Append(st.settled,
                 [mid |-> op.mid, kind |-> op.kind, groupId |-> op.groupId,
                  how |-> "resolved", errors |-> <<>>])]

\* a mutation completes with its authoritative result: the optimistic layer
\* is dropped and the patch is run against the real response
MutationResult(st, op, data) ==
  [userCache |->
     CASE op.kind = "createGroup" -> createGroupUpdate(st.userCache, data)
       [] op.kind = "deleteGroup" -> deleteGroupUpdate(st.userCache, data)
       [] op.kind = "leaveGroup" -> leaveGroupUpdate(st.userCache, data)
       [] OTHER -> st.userCache,
   groupCache |->
     IF op.kind = "createMessage"
     THEN createMessageUpdate(st.groupCache, op.groupId, data)
     ELSE st.groupCache,
   optimistic |-> RemoveLayer(st.optimistic, op.mid),
   settled |-> Append(st.settled,
                 [mid |-> op.mid, kind |-> op.kind, groupId |-> op.groupId,
                  how |-> "resolved", errors |-> <<>>])]

\* a failure that raises the error and leaves the optimistic layer in place
MutationErrorKeepsLayer(st, op, how, errors) ==
  [st EXCEPT !.settled = Append(@,
                [mid |-> op.mid, kind |-> op.kind, groupId |-> op.groupId,
                 how |-> how, errors |-> errors])]

\* a mutation fails: the optimistic layer is dropped, the error is raised
MutationError(st, op, how, errors) ==
  [st EXCEPT !.optimistic = RemoveLayer(@, op.mid),
             !.settled = Append(@,
                [mid |-> op.mid, kind |-> op.kind, groupId |-> op.groupId,
                 how |-> how, errors |-> errors])]

RECURSIVE Demux(_, _, _, _)
\* the batch response is split by position; each caller settles on its slice
Demux(st, ops, responses, i) ==
  IF i > Len(ops) THEN st
  ELSE Demux(IF responses[i].errors # <<>>
             THEN MutationError(st, ops[i], "rejected", responses[i].errors)
             ELSE MutationResult(st, ops[i], responses[i].data),
             ops, responses, i + 1)

\* a transport that rejects only the first caller of a failed batch
RejectAllFirstOnly(st, ops, i) ==
  MutationError(st, ops[1], "failed", <<NetworkError>>)

RECURSIVE RejectAll(_, _, _)
\* the network call failed: every caller of the batch gets the transport error
RejectAll(st, ops, i) ==
  IF i > Len(ops) THEN st
  ELSE RejectAll(MutationError(st, ops[i], "failed", <<NetworkError>>), ops, i + 1)

ClientState ==
  [userCache |-> userCache, groupCache |-> groupCache,
   optimistic |-> optimistic, settled |-> <<>>]

\* how many entries of a sequence of operations or outcomes are of mutation mid
Occurrences(entries, mid) ==
  Cardinality({i \in 1..Len(entries) : entries[i].mid = mid})

\* a rejection handler that issues the request again
OnRejectedRetry(outcome) ==
  <<[mid |-> outcome.mid, kind |-> outcome.kind, groupId |-> outcome.groupId,
     text |-> ""]>>

\* the rejection handlers of the callers (.catch of create, deleteGroup and
\* leaveGroup; send has none): the requests they issue, which is none
OnRejected(outcome) == <<>>

RECURSIVE Resubmit(_, _)
\* the requests issued by the callers of a batch as they settle
Resubmit(outcomes, i) ==
  IF i > Len(outcomes) THEN <<>>
  ELSE (IF outcomes[i].how = "resolved" THEN <<>> ELSE OnRejected(outcomes[i]))
       \o Resubmit(outcomes, i + 1)

\* ------------------------------------------------------ initial values
NoFetches == [window |-> <<>>, flight |-> {}, results |-> {}, nextCaller |-> 1]
NoUser == [present |-> FALSE, groups |-> <<>>]
NoParams == [jwt |-> "unsent"]
IdleSocket == [state |-> "Idle", params |-> NoParams, live |-> 0]

\* connection parameters that were read once, when the client was created
connectionParamsAtStart(token) == [jwt |-> "t1"]

\* connection parameters that leave the credential out when there is none
connectionParamsIfSet(token) == IF token = NoJwt THEN NoParams ELSE [jwt |-> token]

\* connectionParams(): { jwt: store.getState().auth.jwt }
connectionParams(token) == [jwt |-> token]

\* a client that stays disconnected once the connection is lost
reconnectOff == FALSE

\* reconnect: true
reconnect == TRUE

\* a client that connects as soon as it is created
lazyOff == FALSE

\* new SubscriptionClient(url, {reconnect: true, connectionParams, lazy: true})
lazy == TRUE

\* ------------------------------------------------------------------- Init
\* The user is signed in (the credential was rehydrated) and the caches hold
\* the results of the initial USER_QUERY and GROUP_QUERY fetches: the user is
\* in group 1, which has no messages yet.
Init ==
  /\ userCache = <<[id |-> 1, messages |-> <<>>]>>
  /\ groupCache = [g \in GroupIds |-> <<>>]
  /\ optimistic = <<>>
  /\ window = <<>>
  /\ network = {}
  /\ pushes = <<>>
  /\ server = [nextMsgId |-> 1, nextGroupId |-> 2, groups |-> {1}]
  /\ jwt = "t1"
  /\ nextMid = 1
  /\ foreign = 0
  /\ delivered = {}
  /\ settled = <<>>
  /\ dispatched = 0
  /\ effects = <<>>
  /\ call = NoCall
  /\ submissions = [m \in Mids |-> 0]
  /\ settlements = [m \in Mids |-> 0]
  /\ fetches = NoFetches
  /\ propsUser = NoUser
  /\ groupSubscription = 0
  /\ messagesSubscription = 0
  /\ channel = [handles |-> {}, nextHandle |-> 1,
                socket |-> IF lazy THEN IdleSocket
                           ELSE [state |-> "Connecting",
                                 params |-> connectionParams("t1"), live |-> 1]]
  /\ wire = <<>>
  /\ unsubscribed = [once |-> {}, again |-> {}]
  /\ published = 0
  /\ lost = {}

\* ---------------------------------------------------------------- actions
\* mutate({variables, optimisticResponse?, update}): the optimistic layer is
\* written, then the request is handed to the batching network interface
Mutate(kind, groupId, text, speculative) ==
  /\ (nextMid - 1) + foreign < MaxChanges
  /\ LET op == [mid |-> nextMid, kind |-> kind, groupId |-> groupId, text |-> text] IN
     /\ optimistic' = IF speculative
                      THEN Append(optimistic,
                             [mid |-> nextMid, groupId |-> groupId,
                              response |-> optimisticResponse(text, groupId),
                              prior |-> Visible[groupId]])
                      ELSE optimistic
     /\ window' = Append(window, op)
  /\ nextMid' = nextMid + 1
  /\ UNCHANGED <<userCache, groupCache, network, pushes, server, jwt,
                 foreign, delivered, settled, dispatched, effects, call,
                 submissions, settlements, fetches, channelVars>>

\* Messages.send -> props.createMessage({text, userId, groupId})
CreateMessage ==
  \E g \in GroupIds, t \in Texts :
    /\ SomeId(userCache, g)
    /\ Mutate("createMessage", g, t, TRUE)

\* FinalizeGroup.create -> props.createGroup({name, userIds, userId})
CreateGroup == Mutate("createGroup", NullId, "", FALSE)

\* GroupDetails.deleteGroup -> props.deleteGroup(id)
DeleteGroup ==
  \E g \in GroupIds : SomeId(userCache, g) /\ Mutate("deleteGroup", g, "", FALSE)

\* GroupDetails.leaveGroup -> props.leaveGroup({id, userId})
LeaveGroup ==
  \E g \in GroupIds : SomeId(userCache, g) /\ Mutate("leaveGroup", g, "", FALSE)

\* the batch interval elapses: the middleware runs and the batch is sent
SendBatch ==
  /\ window # <<>>
  /\ network' = network \cup
       {[ops |-> window, authorization |-> applyBatchMiddleware(jwt),
         handled |-> FALSE, responses |-> <<>>]}
  /\ window' = <<>>
  /\ submissions' = [m \in Mids |-> submissions[m] + Occurrences(window, m)]
  /\ UNCHANGED <<userCache, groupCache, optimistic, pushes, server, jwt,
                 nextMid, foreign, delivered, settled, dispatched, effects, call,
                 settlements, fetches, channelVars>>

\* the server resolves the operations of a batch and publishes the events
ServerHandle ==
  \E b \in network :
    /\ ~b.handled
    /\ \E errs \in [1..Len(b.ops) -> ErrorLists] :
         LET run == ServerRun([server |-> server, responses |-> <<>>, events |-> <<>>],
                              b.ops, errs, 1) IN
         /\ server' = run.server
         /\ pushes' = pushes \o run.events
         /\ network' = (network \ {b}) \cup
              {[b EXCEPT !.handled = TRUE, !.responses = run.responses]}
    /\ UNCHANGED <<userCache, groupCache, optimistic, window, jwt,
                   nextMid, foreign, delivered, settled, dispatched, effects, call,
                   submissions, settlements, fetches, channelVars>>

\* the network call of a batch fails: no response is obtained
TransportFail ==
  \E b \in network :
    LET st == RejectAll(ClientState, b.ops, 1) IN
    /\ network' = network \ {b}
    /\ optimistic' = st.optimistic
    /\ settled' = st.settled
    /\ settlements' = [m \in Mids |-> settlements[m] + Occurrences(st.settled, m)]
    /\ window' = window \o Resubmit(st.settled, 1)
    /\ UNCHANGED <<userCache, groupCache, pushes, server, jwt,
                   nextMid, foreign, delivered, dispatched, effects, call,
                   submissions, fetches, channelVars>>

\* the response of a batch arrives: afterware, then each caller settles
ReceiveBatch ==
  \E b \in network :
    /\ b.handled
    /\ LET after == applyBatchAfterware(b.responses)
           st == IF after.next THEN Demux(ClientState, b.ops, after.responses, 1)
                 ELSE ClientState
       IN
       /\ dispatched' = after.dispatched
       /\ effects' = after.effects
       /\ jwt' = IF after.dispatched > 0 THEN NoJwt ELSE jwt
       /\ userCache' = st.userCache
       /\ groupCache' = st.groupCache
       /\ optimistic' = st.optimistic
       /\ settled' = st.settled
       /\ settlements' = [m \in Mids |-> settlements[m] + Occurrences(st.settled, m)]
       /\ window' = window \o Resubmit(st.settled, 1)
    /\ network' = network \ {b}
    /\ UNCHANGED <<pushes, server, nextMid, foreign, delivered, call,
                   submissions, fetches, channelVars>>

\* the socket delivers the next event to the reducer of its subscription
DeliverPush ==
  /\ pushes # <<>>
  /\ LET ev == Head(pushes)
         r == IF ev.type = "messageAdded"
              THEN messageAddedUpdateQuery(userCache, ev.doc)
              ELSE groupAddedUpdateQuery(userCache, ev.doc)
     IN
     /\ userCache' = IF Threw(r) THEN userCache ELSE r.groups
     /\ delivered' = delivered \cup {<<ev.type, ev.doc.id>>}
  /\ pushes' = Tail(pushes)
  /\ UNCHANGED <<groupCache, optimistic, window, network, server, jwt,
                 nextMid, foreign, settled, dispatched, effects, call,
                 submissions, settlements, fetches, channelVars>>

\* another participant sends a message to one of the user's groups
ForeignMessage ==
  \E g \in server.groups, t \in {"hi"} :
    /\ (nextMid - 1) + foreign < MaxChanges
    /\ foreign' = foreign + 1
    /\ server' = [server EXCEPT !.nextMsgId = @ + 1]
    /\ pushes' = Append(pushes, [type |-> "messageAdded",
                                 doc |-> [id |-> server.nextMsgId, text |-> t, to |-> g]])
    /\ UNCHANGED <<userCache, groupCache, optimistic, window, network, jwt,
                   nextMid, delivered, settled, dispatched, effects, call,
                   submissions, settlements, fetches, channelVars>>

\* another participant creates a group with the user in it
ForeignGroup ==
  /\ (nextMid - 1) + foreign < MaxChanges
  /\ foreign' = foreign + 1
  /\ server' = [server EXCEPT !.nextGroupId = @ + 1,
                              !.groups = @ \cup {server.nextGroupId}]
  /\ pushes' = Append(pushes, [type |-> "groupAdded",
                               doc |-> [id |-> server.nextGroupId, messages |-> <<>>]])
  /\ UNCHANGED <<userCache, groupCache, optimistic, window, network, jwt,
                 nextMid, delivered, settled, dispatched, effects, call,
                 submissions, settlements, fetches, channelVars>>

\* sign-in: the credential is set to the token of the new session
SignIn ==
  /\ jwt = NoJwt
  /\ jwt' = FreshJwt
  /\ UNCHANGED <<userCache, delivered, call, mutationVars, fetches, channelVars>>

\* the user signs out: logout() clears the credential
SignOut ==
  /\ jwt # NoJwt
  /\ jwt' = NoJwt
  /\ UNCHANGED <<userCache, delivered, call, mutationVars, fetches, channelVars>>

Next ==
  \/ CreateMessage
  \/ CreateGroup
  \/ DeleteGroup
  \/ LeaveGroup
  \/ SendBatch
  \/ ServerHandle
  \/ TransportFail
  \/ ReceiveBatch
  \/ DeliverPush
  \/ ForeignMessage
  \/ ForeignGroup
  \/ SignIn

Spec == Init /\ [][Next]_vars

\* The batch interval always elapses, and the network answers or fails every
\* call it was given.
SpecLive ==
  /\ Init /\ [][Next]_vars
  /\ WF_vars(SendBatch)
  /\ WF_vars(ReceiveBatch \/ TransportFail)

\* --------------------------------------------- the reducers, call by call
\* The arguments of a reducer call: a cached user result whose lists hold no
\* id twice, and the entity of an event. The event may name an id or a group
\* the cached result does not hold.
DocIds == 1..MaxDocId
EventIds == 1..(MaxDocId + 1)

DistinctIds(docs) ==
  \A i, j \in 1..Len(docs) : docs[i].id = docs[j].id => i = j

MessageLists(g) ==
  {m \in UNION {[1..k -> [id : DocIds, text : {"hi"}, to : {g}]] : k \in 0..MaxDocId} :
     DistinctIds(m)}

GroupDocs == UNION {{[id |-> g, messages |-> m] : m \in MessageLists(g)} : g \in DocIds}

GroupLists ==
  {gs \in UNION {[1..k -> GroupDocs] : k \in 0..MaxDocId} : DistinctIds(gs)}

\* updateQuery of subscribeToMessages on some previous result and some event
CallMessageAdded ==
  /\ call = NoCall
  /\ \E prev \in GroupLists, id \in EventIds, g \in EventIds :
    LET doc == [id |-> id, text |-> "hi", to |-> g] IN
    /\ call' = [fn |-> "messageAdded", prev |-> prev, doc |-> doc,
                out |-> messageAddedUpdateQuery(prev, doc)]
    /\ UNCHANGED <<userCache, jwt, delivered, mutationVars, fetches, channelVars>>

\* updateQuery of subscribeToGroups on some previous result and some event
CallGroupAdded ==
  /\ call = NoCall
  /\ \E prev \in GroupLists, id \in EventIds :
    LET doc == [id |-> id, messages |-> <<>>] IN
    /\ call' = [fn |-> "groupAdded", prev |-> prev, doc |-> doc,
                out |-> groupAddedUpdateQuery(prev, doc)]
    /\ UNCHANGED <<userCache, jwt, delivered, mutationVars, fetches, channelVars>>

\* update of createGroup on some cached groups and some response
CallCreateGroup ==
  /\ call = NoCall
  /\ \E prev \in GroupLists, id \in EventIds :
    LET doc == [id |-> id, messages |-> <<>>] IN
    /\ call' = [fn |-> "createGroup", prev |-> prev, doc |-> doc,
                out |-> [threw |-> FALSE, groups |-> createGroupUpdate(prev, doc)]]
    /\ UNCHANGED <<userCache, jwt, delivered, mutationVars, fetches, channelVars>>

\* update of createMessage on some cached messages of a group and some
\* response: the optimistic one, with the sentinel id, or the server's
CallCreateMessage ==
  /\ call = NoCall
  /\ \E g \in DocIds, id \in EventIds \cup {SentinelId} :
     \E prev \in MessageLists(g) :
       LET doc == [id |-> id, text |-> "hi", to |-> g]
           store == [groupCache EXCEPT ![g] = prev]
       IN
       /\ call' = [fn |-> "createMessage", prev |-> prev, doc |-> doc,
                   out |-> [threw |-> FALSE,
                            groups |-> createMessageUpdate(store, g, doc)[g]]]
       /\ UNCHANGED <<userCache, jwt, delivered, mutationVars, fetches, channelVars>>

NextReducers ==
  \/ CallMessageAdded
  \/ CallGroupAdded
  \/ CallCreateGroup
  \/ CallCreateMessage

SpecReducers == Init /\ [][NextReducers]_vars

\* ------------------------------------------------ the queries of the transport
\* The callers of GROUP_QUERY: each issues the query for one group; the
\* transport collects the queries of a window, sends them as one batch and
\* hands each caller the result of its entry.
Signatures == {[query |-> "group", variables |-> [groupId |-> g]] : g \in 1..2}
Versions == {"v1", "v2"}

\* a transport that gives every caller an entry of its own
queryDeduplicationOff == FALSE

\* createBatchingNetworkInterface({..., queryDeduplication: true})
queryDeduplication == TRUE

\* a query joins the window: with deduplication, the entry of an equal
\* signature (same query, deeply equal variables) takes the caller in
Enqueue(entries, signature, caller) ==
  IF queryDeduplication /\ \E i \in 1..Len(entries) : entries[i].signature = signature
  THEN [i \in 1..Len(entries) |->
          IF entries[i].signature = signature
          THEN [entries[i] EXCEPT !.callers = @ \cup {caller}]
          ELSE entries[i]]
  ELSE Append(entries, [signature |-> signature, callers |-> {caller}])

\* what the callers of a batch receive: one result per caller, the data of
\* the caller's own entry
Results(b, data) ==
  UNION {{[caller |-> c, signature |-> b.entries[i].signature, batch |-> b.id,
           data |-> data[i]] : c \in b.entries[i].callers} : i \in 1..Len(b.entries)}

\* a component issues GROUP_QUERY for a group
Fetch ==
  \E signature \in Signatures :
    /\ fetches.nextCaller <= MaxCallers
    /\ fetches' = [fetches EXCEPT
         !.window = Enqueue(@, signature, fetches.nextCaller),
         !.nextCaller = @ + 1]
    /\ UNCHANGED <<userCache, jwt, delivered, call, mutationVars, channelVars>>

\* the batch interval elapses: the entries of the window go out as one batch
SendFetches ==
  /\ fetches.window # <<>>
  /\ fetches' = [fetches EXCEPT
       !.window = <<>>,
       !.flight = @ \cup {[id |-> fetches.nextCaller, entries |-> fetches.window,
                           authorization |-> applyBatchMiddleware(jwt)]}]
  /\ UNCHANGED <<userCache, jwt, delivered, call, mutationVars, channelVars>>

\* the response of a batch of queries arrives: one result per entry
AnswerFetches ==
  \E b \in fetches.flight :
    \E data \in [1..Len(b.entries) -> Versions] :
      /\ fetches' = [fetches EXCEPT
           !.flight = @ \ {b},
           !.results = @ \cup Results(b, data)]
      /\ UNCHANGED <<userCache, jwt, delivered, call, mutationVars, channelVars>>

\* the network call of a batch of queries fails
FailFetches ==
  \E b \in fetches.flight :
    /\ fetches' = [fetches EXCEPT
         !.flight = @ \ {b},
         !.results = @ \cup Results(b, [i \in 1..Len(b.entries) |-> NetworkError])]
    /\ UNCHANGED <<userCache, jwt, delivered, call, mutationVars, channelVars>>

NextFetches ==
  \/ Fetch
  \/ SendFetches
  \/ AnswerFetches
  \/ FailFetches

SpecFetches == Init /\ [][NextFetches]_vars

\* ------------------------------------------------ the subscription channel
\* The props the component may receive: no user, or the user of USER_QUERY
\* with some groups (their ids, in the order of user.groups).
PropsUsers ==
  {NoUser} \cup {[present |-> TRUE, groups |-> gs] :
                   gs \in {<<>>, <<1>>, <<2>>, <<1, 2>>}}

\* map(user.groups, 'id')
Ids(groups) == {groups[i] : i \in 1..Len(groups)}

\* a channel that makes a connection for every subscription
openEachOwnSocket(ch, document, topic, token) ==
  [handles |-> ch.handles \cup
                 {[id |-> ch.nextHandle, document |-> document, topic |-> topic]},
   nextHandle |-> ch.nextHandle + 1,
   socket |-> [state |-> "Connecting", params |-> connectionParams(token),
               live |-> ch.socket.live + 1]]

\* open(topic, onEvent): the subscription is registered under a new handle;
\* the first one makes the client connect (lazy: true), the later ones use
\* the connection there is
open(ch, document, topic, token) ==
  [handles |-> ch.handles \cup
                 {[id |-> ch.nextHandle, document |-> document, topic |-> topic]},
   nextHandle |-> ch.nextHandle + 1,
   socket |-> IF ch.socket.state = "Idle"
              THEN [state |-> "Connecting", params |-> connectionParams(token),
                    live |-> ch.socket.live + 1]
              ELSE ch.socket]

\* an Unsubscribe that leaves the subscription registered
UnsubscribeNot(ch, handle) == ch

\* an Unsubscribe that, called for a handle that is gone, stops the latest
\* subscription instead
UnsubscribeLatest(ch, handle) ==
  IF \E s \in ch.handles : s.id = handle
  THEN [ch EXCEPT !.handles = {s \in @ : s.id # handle}]
  ELSE [ch EXCEPT !.handles = {s \in @ : \E t \in ch.handles : t.id > s.id}]

\* the function subscribeToMore returned: the subscription of the handle is
\* removed from the channel
Unsubscribe(ch, handle) ==
  [ch EXCEPT !.handles = {s \in @ : s.id # handle}]

\* subscribeToMessages(): MESSAGE_ADDED_SUBSCRIPTION for the user's group ids
subscribeToMessages(ch, user, token) ==
  open(ch, "messageAdded", Ids(user.groups), token)

\* subscribeToGroups(): GROUP_ADDED_SUBSCRIPTION for the user's id
subscribeToGroups(ch, user, token) == open(ch, "groupAdded", {1}, token)

\* a component that opens the new messages subscription and leaves the old one
componentWillReceivePropsKeepsOld(this, nextUser, token) ==
  LET gs == this.groupSubscription
      ms == this.messagesSubscription
      c1 == IF ~nextUser.present /\ gs # 0 THEN Unsubscribe(this.channel, gs)
            ELSE this.channel
      c2 == IF ~nextUser.present /\ ms # 0 THEN Unsubscribe(c1, ms) ELSE c1
      changed == /\ nextUser.present
                 /\ \/ ~this.user.present
                    \/ Len(nextUser.groups) # Len(this.user.groups)
      c3 == c2
      again == changed /\ Len(nextUser.groups) # 0
      c4 == IF again THEN subscribeToMessages(c3, nextUser, token) ELSE c3
      first == gs = 0 /\ nextUser.present
      c5 == IF first THEN subscribeToGroups(c4, nextUser, token) ELSE c4
  IN [user |-> nextUser,
      called |-> (IF ~nextUser.present /\ gs # 0 THEN {gs} ELSE {}) \cup
                 (IF ~nextUser.present /\ ms # 0 THEN {ms} ELSE {}),
      groupSubscription |-> IF first THEN c4.nextHandle ELSE gs,
      messagesSubscription |-> IF again THEN c3.nextHandle ELSE ms,
      channel |-> c5]

\* a component that leaves its subscriptions on when the user is gone
componentWillReceivePropsStaysOn(this, nextUser, token) ==
  LET gs == this.groupSubscription
      ms == this.messagesSubscription
      c1 == this.channel
      c2 == c1
      changed == /\ nextUser.present
                 /\ \/ ~this.user.present
                    \/ Len(nextUser.groups) # Len(this.user.groups)
      c3 == IF changed /\ ms # 0 THEN Unsubscribe(c2, ms) ELSE c2
      again == changed /\ Len(nextUser.groups) # 0
      c4 == IF again THEN subscribeToMessages(c3, nextUser, token) ELSE c3
      first == gs = 0 /\ nextUser.present
      c5 == IF first THEN subscribeToGroups(c4, nextUser, token) ELSE c4
  IN [user |-> nextUser,
      called |-> IF changed /\ ms # 0 THEN {ms} ELSE {},
      groupSubscription |-> IF first THEN c4.nextHandle ELSE gs,
      messagesSubscription |-> IF again THEN c3.nextHandle ELSE ms,
      channel |-> c5]

\* componentWillReceiveProps(nextProps), on the component's fields
componentWillReceiveProps(this, nextUser, token) ==
  LET gs == this.groupSubscription
      ms == this.messagesSubscription
      c1 == IF ~nextUser.present /\ gs # 0 THEN Unsubscribe(this.channel, gs)
            ELSE this.channel
      c2 == IF ~nextUser.present /\ ms # 0 THEN Unsubscribe(c1, ms) ELSE c1
      changed == /\ nextUser.present
                 /\ \/ ~this.user.present
                    \/ Len(nextUser.groups) # Len(this.user.groups)
      c3 == IF changed /\ ms # 0 THEN Unsubscribe(c2, ms) ELSE c2
      again == changed /\ Len(nextUser.groups) # 0
      c4 == IF again THEN subscribeToMessages(c3, nextUser, token) ELSE c3
      first == gs = 0 /\ nextUser.present
      c5 == IF first THEN subscribeToGroups(c4, nextUser, token) ELSE c4
  IN [user |-> nextUser,
      called |-> (IF ~nextUser.present /\ gs # 0 THEN {gs} ELSE {}) \cup
                 (IF (~nextUser.present \/ changed) /\ ms # 0 THEN {ms} ELSE {}),
      groupSubscription |-> IF first THEN c4.nextHandle ELSE gs,
      messagesSubscription |-> IF again THEN c3.nextHandle ELSE ms,
      channel |-> c5]

\* the component with its fields
This ==
  [user |-> propsUser, groupSubscription |-> groupSubscription,
   messagesSubscription |-> messagesSubscription, channel |-> channel]

RECURSIVE Fanout(_, _, _, _)
\* the data messages the server sends for one event: one per subscription
\* whose topic the event falls under, by handle
Fanout(handles, type, doc, h) ==
  IF h = 0 THEN <<>>
  ELSE Fanout(handles, type, doc, h - 1) \o
       (IF \E s \in handles :
             /\ s.id = h /\ s.document = type
             /\ (IF type = "messageAdded" THEN doc.to ELSE 1) \in s.topic
        THEN <<[handle |-> h, type |-> type, doc |-> doc]>>
        ELSE <<>>)

\* the events the server may publish next
NextEvents ==
  {[type |-> "messageAdded", doc |-> [id |-> published + 1, text |-> "hi", to |-> g]] :
     g \in 1..2}
  \cup {[type |-> "groupAdded", doc |-> [id |-> published + 2, messages |-> <<>>]]}

\* the component receives props
ReceiveProps ==
  \E nextUser \in PropsUsers :
    /\ channel.nextHandle <= MaxHandles
    /\ LET this == componentWillReceiveProps(This, nextUser, jwt) IN
       /\ propsUser' = this.user
       /\ groupSubscription' = this.groupSubscription
       /\ messagesSubscription' = this.messagesSubscription
       /\ channel' = this.channel
       /\ unsubscribed' = [once |-> unsubscribed.once \cup this.called,
                           again |-> unsubscribed.again \cup
                                       (this.called \cap unsubscribed.once)]
    /\ UNCHANGED <<wire, published, lost, userCache, jwt, delivered, call,
                   mutationVars, fetches>>

\* the server accepts the connection
SocketOpen ==
  /\ channel.socket.state = "Connecting"
  /\ channel' = [channel EXCEPT !.socket.state = "Open"]
  /\ UNCHANGED <<propsUser, groupSubscription, messagesSubscription, wire,
                 unsubscribed, published, lost, userCache, jwt, delivered, call,
                 mutationVars, fetches>>

\* the connection is lost: what was in flight on it is lost with it
SocketDrop ==
  /\ channel.socket.state \in {"Connecting", "Open"}
  /\ channel' = [channel EXCEPT !.socket.state = "Reconnecting",
                                !.socket.live = @ - 1]
  /\ wire' = <<>>
  /\ UNCHANGED <<propsUser, groupSubscription, messagesSubscription,
                 unsubscribed, published, lost, userCache, jwt, delivered, call,
                 mutationVars, fetches>>

\* reconnect: true: the client tries again, with the parameters of that moment
SocketRetry ==
  /\ reconnect
  /\ channel.socket.state = "Reconnecting"
  /\ channel' = [channel EXCEPT !.socket =
       [state |-> "Connecting", params |-> connectionParams(jwt), live |-> @.live + 1]]
  /\ UNCHANGED <<propsUser, groupSubscription, messagesSubscription, wire,
                 unsubscribed, published, lost, userCache, jwt, delivered, call,
                 mutationVars, fetches>>

\* a channel that keeps the data messages of an outage for the next connection
TransmitBuffered(state, queue, messages) == queue \o messages

\* the data messages of an event are put on the socket if it is open, and
\* are dropped otherwise
Transmit(state, queue, messages) ==
  IF state = "Open" THEN queue \o messages ELSE queue

\* the server publishes an event: it goes to the subscriptions it falls under
\* if the channel is connected, and to nobody otherwise
Publish ==
  \E ev \in NextEvents :
    /\ published < MaxEvents
    /\ published' = published + 1
    /\ wire' = Transmit(channel.socket.state, wire,
                        Fanout(channel.handles, ev.type, ev.doc,
                               channel.nextHandle - 1))
    /\ lost' = IF channel.socket.state = "Open" THEN lost
               ELSE lost \cup {<<ev.type, ev.doc.id>>}
    /\ UNCHANGED <<propsUser, groupSubscription, messagesSubscription, channel,
                   unsubscribed, userCache, jwt, delivered, call,
                   mutationVars, fetches>>

\* a data message arrives: the reducer of its subscription runs, if the
\* subscription is still registered
ChannelDeliver ==
  /\ wire # <<>>
  /\ LET ev == Head(wire)
         r == IF ev.type = "messageAdded"
              THEN messageAddedUpdateQuery(userCache, ev.doc)
              ELSE groupAddedUpdateQuery(userCache, ev.doc)
     IN
     IF \E s \in channel.handles : s.id = ev.handle
     THEN /\ userCache' = IF Threw(r) THEN userCache ELSE r.groups
          /\ delivered' = delivered \cup {<<ev.type, ev.doc.id>>}
     ELSE UNCHANGED <<userCache, delivered>>
  /\ wire' = Tail(wire)
  /\ UNCHANGED <<propsUser, groupSubscription, messagesSubscription, channel,
                 unsubscribed, published, lost, jwt, call, mutationVars, fetches>>

NextChannel ==
  \/ ReceiveProps
  \/ SocketOpen
  \/ SocketDrop
  \/ SocketRetry
  \/ Publish
  \/ ChannelDeliver
  \/ SignOut
  \/ SignIn

SpecChannel == Init /\ [][NextChannel]_vars

\* The credential and its two readers: the middleware of the batches and the
\* connection parameters of the socket.
NextCredential ==
  \/ SignOut
  \/ SignIn
  \/ CreateGroup
  \/ SendBatch
  \/ TransportFail
  \/ ReceiveProps
  \/ SocketOpen
  \/ SocketDrop
  \/ SocketRetry

SpecCredential == Init /\ [][NextCredential]_vars

\* --------------------------------------------------- steps, as seen from vars
Count(docs, id) == Cardinality({i \in 1..Len(docs) : docs[i].id = id})

\* the response of batch b is received (afterware and settling of the callers)
ReceiveStep(b) ==
  /\ b \in network
  /\ b.handled
  /\ network' = network \ {b}
  /\ \A i \in 1..Len(settled') : settled'[i].how # "failed"

\* the network call of batch b fails
FailStep(b) ==
  /\ b \in network
  /\ network' = network \ {b}
  /\ settled' # <<>>
  /\ \A i \in 1..Len(settled') : settled'[i].how = "failed"

\* the socket delivers the event at the head of the queue
DeliverStep == pushes # <<>> /\ pushes' = Tail(pushes)

\* the operations that were issued and have not settled yet
PendingOps ==
  {window[i] : i \in 1..Len(window)} \cup
  UNION {{b.ops[i] : i \in 1..Len(b.ops)} : b \in network}

HasMarker(response) ==
  \E k \in 1..Len(response.errors) : response.errors[k] = "Unauthorized"

\* ----------------------------------------------------------------- claims

\* C1: in every reachable cache state no list of entities holds an id twice:
\* not the messages of a group (confirmed, or as shown with the optimistic
\* layers), not the groups of the user, not the messages of a group of the
\* user result.
NoDuplicateIdentities ==
  /\ DistinctIds(userCache)
  /\ \A i \in 1..Len(userCache) : DistinctIds(userCache[i].messages)
  /\ \A g \in GroupIds : DistinctIds(groupCache[g]) /\ DistinctIds(Visible[g])

\* C1 witness: both arrival paths have written: a createGroup and a send were
\* answered in one batch, the event of the new group has reached the reducer
\* as well, and the user result holds the new group.
BothPathsWrote ==
  /\ \E i, j \in 1..Len(settled) :
       /\ settled[i].kind = "createGroup" /\ settled[i].how = "resolved"
       /\ settled[j].kind = "createMessage" /\ settled[j].how = "resolved"
  /\ \E id \in GroupIds :
       id > 1 /\ <<"groupAdded", id>> \in delivered /\ SomeId(userCache, id)
  /\ \E g \in GroupIds : Len(groupCache[g]) >= 1

\* C2: when the authoritative response of a createMessage arrives, the
\* group's messages as shown hold its message exactly once, and no sentinel
\* entry unless another send to that group is still pending.
OptimisticSupersession ==
  [][\A b \in network : ReceiveStep(b) =>
       \A i \in 1..Len(b.ops) :
         (b.ops[i].kind = "createMessage" /\ b.responses[i].errors = <<>>) =>
           LET g == b.ops[i].groupId IN
           /\ Count(Visible'[g], b.responses[i].data.id) = 1
           /\ (\A k \in 1..Len(optimistic') : optimistic'[k].groupId # g)
                => Count(Visible'[g], SentinelId) = 0]_vars

\* C2 witness: a send has completed: the group shows its confirmed message
\* and no sentinel, and no send is pending.
SupersededState ==
  /\ optimistic = <<>>
  /\ PendingOps = {}
  /\ \E g \in GroupIds :
       /\ Len(groupCache[g]) = 1
       /\ groupCache[g][1].id > 0
       /\ Visible[g] = groupCache[g]
  /\ Len(settled) = 1
  /\ settled[1].kind = "createMessage"
  /\ settled[1].how = "resolved"

TargetList(c) ==
  IF c.fn \in {"groupAdded", "createGroup", "createMessage"} THEN c.prev
  ELSE LET k == IndexOfId(c.prev, c.doc.to, 1) IN
       IF k = 0 THEN <<>> ELSE c.prev[k].messages

DuplicateReturnsPrevious ==
  (call.fn # "none" /\ Count(TargetList(call), call.doc.id) > 0) =>
    (~call.out.threw /\ call.out.groups = call.prev)

\* C4 witness: the messageAdded reducer was called with a message whose id
\* is already among several messages of its group.
DuplicateMessageCall ==
  /\ call.fn = "messageAdded"
  /\ Len(TargetList(call)) >= 2
  /\ Count(TargetList(call), call.doc.id) > 0

\* C5: a new group enters the user's groups with the first of the two
\* arrivals and is there exactly once after each of them: after the
\* createGroup response and after the groupAdded event, in either order;
\* while both are still on their way the cache holds no entry for it.
CreateGroupEitherOrder ==
  /\ [](\A b \in network : \A i \in 1..Len(b.ops) :
          (/\ b.handled
           /\ b.ops[i].kind = "createGroup"
           /\ b.responses[i].errors = <<>>
           /\ \E k \in 1..Len(pushes) :
                pushes[k].type = "groupAdded" /\ pushes[k].doc.id = b.responses[i].data.id)
          => Count(userCache, b.responses[i].data.id) = 0)
  /\ [][\A b \in network : ReceiveStep(b) =>
          \A i \in 1..Len(b.ops) :
            (b.ops[i].kind = "createGroup" /\ b.responses[i].errors = <<>>) =>
              Count(userCache', b.responses[i].data.id) = 1]_vars
  /\ [][(DeliverStep /\ Head(pushes).type = "groupAdded") =>
          Count(userCache', Head(pushes).doc.id) = 1]_vars

\* C5 witness: the groupAdded event of a created group has written the group
\* while the createGroup response is still on its way.
GroupEventBeforeResponse ==
  \E b \in network : \E i \in 1..Len(b.ops) :
    /\ b.handled
    /\ b.ops[i].kind = "createGroup"
    /\ b.responses[i].errors = <<>>
    /\ <<"groupAdded", b.responses[i].data.id>> \in delivered
    /\ Count(userCache, b.responses[i].data.id) = 1

\* C6: when a createMessage issued with a speculative result fails (an
\* operation error in the response, or the network call failing), its
\* optimistic layer is dropped and its caller is rejected with the error; a
\* failing network call leaves the confirmed data as it was; and where the
\* group still showed exactly the speculative entry on top of what it showed
\* when the mutation was issued, it shows that earlier value again.
Reverted(op, i) ==
  LET g == op.groupId
      L == CHOOSE l \in {optimistic[k] : k \in 1..Len(optimistic)} : l.mid = op.mid
  IN
  /\ \A k \in 1..Len(optimistic') : optimistic'[k].mid # op.mid
  /\ settled'[i].mid = op.mid
  /\ settled'[i].how \in {"rejected", "failed"}
  /\ settled'[i].errors # <<>>
  /\ ((\A k \in 1..Len(optimistic) :
         optimistic[k].groupId = g => optimistic[k].mid = op.mid)
      /\ Visible[g] = <<L.response>> \o L.prior)
       => Visible'[g] = L.prior

RevertOnFailure ==
  [][\A b \in network :
       /\ ReceiveStep(b) =>
            \A i \in 1..Len(b.ops) :
              (b.ops[i].kind = "createMessage" /\ b.responses[i].errors # <<>>)
                => Reverted(b.ops[i], i)
       /\ FailStep(b) =>
            /\ groupCache' = groupCache
            /\ userCache' = userCache
            /\ \A i \in 1..Len(b.ops) :
                 b.ops[i].kind = "createMessage" => Reverted(b.ops[i], i)]_vars

\* C6 witness: a send to a group that already had a confirmed message has
\* failed: its caller got the error and the group shows the confirmed
\* messages only.
FailedSendReverted ==
  \E i \in 1..Len(settled) :
    /\ settled[i].kind = "createMessage"
    /\ settled[i].how \in {"rejected", "failed"}
    /\ optimistic = <<>>
    /\ Len(groupCache[settled[i].groupId]) >= 1
    /\ Visible[settled[i].groupId] = groupCache[settled[i].groupId]

\* C7: every sentinel entry shown in a group's messages is backed by a
\* createMessage for that group, with that text, that has not settled; the
\* confirmed data never hold a sentinel; with no mutation pending no
\* sentinel is shown.
IsSentinel(m) == m.id < 0

SentinelBacked ==
  /\ \A g \in GroupIds :
       /\ \A i \in 1..Len(Visible[g]) :
            IsSentinel(Visible[g][i]) =>
              \E op \in PendingOps :
                /\ op.kind = "createMessage"
                /\ op.groupId = g
                /\ op.text = Visible[g][i].text
       /\ \A i \in 1..Len(groupCache[g]) : ~IsSentinel(groupCache[g][i])
  /\ \A i \in 1..Len(userCache) :
       \A k \in 1..Len(userCache[i].messages) : ~IsSentinel(userCache[i].messages[k])
  /\ PendingOps = {} =>
       \A g \in GroupIds : \A i \in 1..Len(Visible[g]) : ~IsSentinel(Visible[g][i])

\* C7 witness: a sentinel entry is shown while its mutation is in the
\* network, after an earlier mutation has failed.
SentinelWhilePending ==
  /\ \E g \in GroupIds : Count(Visible[g], SentinelId) = 1
  /\ network # {}
  /\ \E i \in 1..Len(settled) : settled[i].how \in {"rejected", "failed"}

\* C8 as stated: every createMessage whose request is in flight on the
\* network (sent, not yet settled) has its speculative entity in the
\* group's messages as shown.
SpeculativeBeforeSend ==
  \A b \in network : \A k \in 1..Len(b.ops) :
    LET op == b.ops[k] IN
    op.kind = "createMessage" =>
      \E i \in 1..Len(Visible[op.groupId]) :
        Visible[op.groupId][i] = optimisticResponse(op.text, op.groupId)

\* C9: the afterware run on the responses of a batch dispatches logout once
\* if some response carries an error with the message 'Unauthorized', however
\* many do, and not at all if none does.
LogoutOncePerBatch ==
  [][\A b \in network : ReceiveStep(b) =>
       dispatched' = IF \E i \in 1..Len(b.responses) : HasMarker(b.responses[i])
                     THEN 1 ELSE 0]_vars

\* C9 witness: the last batch had two responses with the marker and logout
\* was dispatched once.
TwoMarkersOneLogout ==
  /\ dispatched = 1
  /\ Cardinality({i \in 1..Len(settled) :
       \E k \in 1..Len(settled[i].errors) : settled[i].errors[k] = "Unauthorized"}) >= 2

\* C10: in a batch in which some response carries the marker, every caller
\* settles on its own response: resolved if the response has no errors,
\* rejected with the response's errors otherwise.
SettledOnOwnResponse ==
  [][\A b \in network :
       (ReceiveStep(b) /\ \E j \in 1..Len(b.responses) : HasMarker(b.responses[j])) =>
         /\ Len(settled') = Len(b.ops)
         /\ \A i \in 1..Len(b.ops) :
              /\ settled'[i].mid = b.ops[i].mid
              /\ settled'[i].errors = b.responses[i].errors
              /\ settled'[i].how =
                   IF b.responses[i].errors = <<>> THEN "resolved" ELSE "rejected"]_vars

\* C10 witness: in the last batch one caller was rejected with the marker
\* and another one resolved.
MarkerNextToResolved ==
  /\ dispatched = 1
  /\ \E i, j \in 1..Len(settled) :
       /\ settled[i].how = "resolved"
       /\ \E k \in 1..Len(settled[j].errors) : settled[j].errors[k] = "Unauthorized"

\* C11: when the response of a batch is received and none of its responses
\* carries the marker 'Unauthorized', no logout is dispatched and the
\* credential stays; and in every case each caller gets the errors of its own
\* response exactly as the server sent them.
AfterwareFrame ==
  [][\A b \in network : ReceiveStep(b) =>
       /\ (\A i \in 1..Len(b.responses) : ~HasMarker(b.responses[i]))
            => (dispatched' = 0 /\ jwt' = jwt)
       /\ applyBatchAfterware(b.responses).responses = b.responses
       /\ Len(settled') = Len(b.ops)
       /\ \A i \in 1..Len(b.ops) : settled'[i].errors = b.responses[i].errors]_vars

\* C11 witness: a caller was rejected with an error other than the marker,
\* no logout was dispatched and the credential is still set.
NonAuthErrorPassed ==
  /\ dispatched = 0
  /\ jwt # NoJwt
  /\ \E i \in 1..Len(settled) :
       settled[i].how = "rejected" /\ settled[i].errors = <<OtherError>>

\* C12: a batch that is sent carries 'Bearer <jwt>' when a credential is set
\* at that moment, and no authorization header when there is none.
BearerIffCredential ==
  [][\A b \in network' \ network :
       ~b.handled =>
         b.authorization = IF jwt = NoJwt THEN <<>> ELSE <<"Bearer", jwt>>]_vars

\* C12 witness: a batch is in flight without a header: it was sent after the
\* credential was cleared, while an earlier batch went out with the header.
BatchWithoutHeader ==
  /\ jwt = NoJwt
  /\ \E b \in network : b.authorization = <<>>
  /\ \E i \in 1..Len(settled) : settled[i].how # "failed"

\* C15: when the network call of a batch fails, every caller of the batch is
\* rejected with the transport error, in the order of the batch, and nothing
\* of the batch is sent again: none of its operations is pending afterwards
\* and no request went on the network in that step.
TransportFailureSurfaced ==
  [][\A b \in network : FailStep(b) =>
       /\ Len(settled') = Len(b.ops)
       /\ \A i \in 1..Len(b.ops) :
            /\ settled'[i].mid = b.ops[i].mid
            /\ settled'[i].errors = <<NetworkError>>
            /\ \A op \in PendingOps' : op.mid # b.ops[i].mid
       /\ submissions' = submissions]_vars

\* C15 witness: the call of a batch of two operations failed: both callers
\* were rejected, each request went on the network once, nothing is pending.
BatchOfTwoFailed ==
  /\ Len(settled) = 2
  /\ \A i \in 1..2 : settled[i].how = "failed" /\ submissions[settled[i].mid] = 1
  /\ PendingOps = {}

\* C16: under SpecLive every operation that was submitted is eventually
\* settled, and it is never settled more than once.
EventuallySettledOnce ==
  \A m \in Mids :
    /\ [](settlements[m] <= 1)
    /\ [](nextMid > m => <>[](settlements[m] = 1))

\* C16 witness: a batch that triggered the logout was forwarded all the same:
\* its two callers are settled, one resolved and one rejected, each once.
AllSettledAfterLogout ==
  /\ dispatched = 1
  /\ PendingOps = {}
  /\ nextMid = 3
  /\ \A m \in 1..2 : settlements[m] = 1
  /\ \E i, j \in 1..Len(settled) :
       settled[i].how = "resolved" /\ settled[j].how = "rejected"

\* C17: the request of every mutation goes on the network at most once: not
\* at all while it waits in the batching window, exactly once from then on,
\* also after its caller was rejected.
ExactlyOneSubmission ==
  \A m \in Mids :
    /\ submissions[m] <= 1
    /\ m >= nextMid => submissions[m] = 0
    /\ (m < nextMid /\ Occurrences(window, m) = 0) => submissions[m] = 1

\* C17 witness: two mutations are settled, a createGroup among them whose
\* network call failed; no group was created, and each request went out once.
RejectedNotResent ==
  /\ PendingOps = {}
  /\ nextMid = 3
  /\ \A m \in 1..2 : submissions[m] = 1 /\ settlements[m] = 1
  /\ \E i \in 1..Len(settled) :
       settled[i].kind = "createGroup" /\ settled[i].how = "failed"
  /\ server.nextGroupId = 2

\* C14: the queries of one window with equal signature share one network
\* entry (no window and no batch holds a signature twice), and the callers
\* of one batch that asked with equal signature hold the same result.
DedupCoalescing ==
  /\ \A entries \in {fetches.window} \cup {b.entries : b \in fetches.flight} :
       \A i, j \in 1..Len(entries) :
         entries[i].signature = entries[j].signature => i = j
  /\ \A r1, r2 \in fetches.results :
       (r1.batch = r2.batch /\ r1.signature = r2.signature) => r1.data = r2.data

\* C14 witness: two callers asked for the same group in one window, a third
\* for another group; the batch had two entries and both callers of the
\* shared entry hold its result.
TwoCallersOneEntry ==
  \E r1, r2, r3 \in fetches.results :
    /\ r1.caller # r2.caller
    /\ r1.batch = r2.batch /\ r2.batch = r3.batch
    /\ r1.signature = r2.signature /\ r3.signature # r1.signature
    /\ r1.data = r2.data /\ r1.data \in Versions /\ r3.data # r1.data

\* C13: a batch that is sent carries the credential of the moment it is sent,
\* and a connection attempt of the socket (the first one or a retry) sends the
\* credential of the moment it is made; what the credential was when the
\* operation or the subscription was issued plays no part.
CredentialAtUse ==
  [][/\ \A b \in network' \ network :
          b.authorization = IF jwt = NoJwt THEN <<>> ELSE <<"Bearer", jwt>>
     /\ (channel'.socket.state = "Connecting" /\ channel.socket.state # "Connecting")
          => channel'.socket.params = [jwt |-> jwt]]_vars

\* C13 witness: the user signed out and in again; a batch in flight carries
\* the token of the new session, and the socket is connecting with that token
\* for the subscriptions registered on it.
NewCredentialInUse ==
  /\ jwt = FreshJwt
  /\ \E b \in network : b.authorization = <<"Bearer", FreshJwt>>
  /\ channel.socket.state = "Connecting"
  /\ channel.socket.params = [jwt |-> FreshJwt]
  /\ channel.handles # {}

\* C18: a data message for a subscription whose Unsubscribe was called does
\* not reach the reducer: the step that takes it off the socket leaves the
\* cache and the set of delivered events as they were.
UnsubscribeFinality ==
  [][(/\ wire # <<>>
      /\ wire' = Tail(wire)
      /\ channel' = channel
      /\ Head(wire).handle \in unsubscribed.once)
       => (userCache' = userCache /\ delivered' = delivered)]_vars

\* C18 witness: an event was delivered to a subscription, and the next
\* message on the socket is for a subscription whose Unsubscribe was called
\* while the message was in flight.
QueuedEventForStoppedHandle ==
  /\ wire # <<>>
  /\ Head(wire).handle \in unsubscribed.once
  /\ delivered # {}

\* C19: calling an Unsubscribe that was called before changes nothing in the
\* channel: not the socket, not the subscriptions that are registered.
UnsubscribeIdempotent ==
  \A h \in unsubscribed.once : Unsubscribe(channel, h) = channel

\* C19 witness: the component has called a handle a second time while another
\* subscription is registered and the socket is open.
CalledAgainNextToActive ==
  /\ unsubscribed.again # {}
  /\ \E s \in channel.handles : s.id \notin unsubscribed.once
  /\ channel.socket.state = "Open"

\* C20: there is no socket before the first subscription is opened, and at
\* no time is there more than one connection.
OneLazyConnection ==
  /\ channel.socket.live <= 1
  /\ channel.nextHandle = 1 => channel.socket = IdleSocket
  /\ channel.socket.state = "Idle" <=> channel.nextHandle = 1
  /\ channel.socket.live = 1 <=> channel.socket.state \in {"Connecting", "Open"}

\* C20 witness: two subscriptions are registered on the one open connection.
TwoHandlesOneSocket ==
  /\ Cardinality(channel.handles) = 2
  /\ channel.socket.state = "Open"
  /\ channel.socket.live = 1

\* ------------------------------------------------ calls of the removals
\* update of deleteGroup on some cached groups and some returned id
CallDeleteGroup ==
  /\ call = NoCall
  /\ \E prev \in GroupLists, id \in EventIds :
    LET doc == [id |-> id]
        out == deleteGroupUpdate(prev, doc)
    IN
    /\ call' = [fn |-> "deleteGroup", prev |-> prev, doc |-> doc,
                out |-> [threw |-> FALSE, groups |-> out],
                again |-> deleteGroupUpdate(out, doc)]
    /\ UNCHANGED <<userCache, jwt, delivered, mutationVars, fetches, channelVars>>

\* update of leaveGroup on some cached groups and some returned id
CallLeaveGroup ==
  /\ call = NoCall
  /\ \E prev \in GroupLists, id \in EventIds :
    LET doc == [id |-> id]
        out == leaveGroupUpdate(prev, doc)
    IN
    /\ call' = [fn |-> "leaveGroup", prev |-> prev, doc |-> doc,
                out |-> [threw |-> FALSE, groups |-> out],
                again |-> leaveGroupUpdate(out, doc)]
    /\ UNCHANGED <<userCache, jwt, delivered, mutationVars, fetches, channelVars>>

NextRemovals ==
  \/ CallDeleteGroup
  \/ CallLeaveGroup

SpecRemovals == Init /\ [][NextRemovals]_vars

\* ------------------------------------- calls with entities without an id
\* The ids an entity may come with when the id may be null.
NullableIds == {NullId} \cup EventIds

\* sequences in which no id other than null occurs twice
DistinctNonNull(docs) ==
  \A i, j \in 1..Len(docs) :
    (docs[i].id = docs[j].id /\ docs[i].id # NullId) => i = j

NullableMessages(g) ==
  {m \in UNION {[1..k -> [id : {NullId} \cup DocIds, text : {"hi"}, to : {g}]] :
                  k \in 0..MaxDocId} : DistinctNonNull(m)}

NullableGroups ==
  {gs \in UNION {[1..k -> [id : {NullId} \cup DocIds, messages : {<<>>}]] :
                   k \in 0..MaxDocId} : DistinctNonNull(gs)}

\* the groupAdded reducer with its check, isDuplicateDocument
CheckDocument ==
  /\ call = NoCall
  /\ \E prev \in NullableGroups, id \in NullableIds :
    LET doc == [id |-> id, messages |-> <<>>] IN
    /\ call' = [fn |-> "isDuplicateDocument", prev |-> prev, doc |-> doc,
                dup |-> isDuplicateDocument(doc, prev),
                out |-> groupAddedUpdateQuery(prev, doc)]
    /\ UNCHANGED <<userCache, jwt, delivered, mutationVars, fetches, channelVars>>

\* the update of createMessage with its check, isDuplicateMessage
CheckMessage ==
  /\ call = NoCall
  /\ \E g \in DocIds, id \in NullableIds :
     \E prev \in NullableMessages(g) :
       LET doc == [id |-> id, text |-> "hi", to |-> g]
           store == [groupCache EXCEPT ![g] = prev]
       IN
       /\ call' = [fn |-> "isDuplicateMessage", prev |-> prev, doc |-> doc,
                   dup |-> isDuplicateMessage(doc, prev),
                   out |-> [threw |-> FALSE,
                            groups |-> createMessageUpdate(store, g, doc)[g]]]
       /\ UNCHANGED <<userCache, jwt, delivered, mutationVars, fetches, channelVars>>

\* the update of createGroup with its check, isDuplicateGroup
CheckGroup ==
  /\ call = NoCall
  /\ \E prev \in NullableGroups, id \in NullableIds :
    LET doc == [id |-> id, messages |-> <<>>] IN
    /\ call' = [fn |-> "isDuplicateGroup", prev |-> prev, doc |-> doc,
                dup |-> isDuplicateGroup(doc, prev),
                out |-> [threw |-> FALSE, groups |-> createGroupUpdate(prev, doc)]]
    /\ UNCHANGED <<userCache, jwt, delivered, mutationVars, fetches, channelVars>>

NextChecks ==
  \/ CheckDocument
  \/ CheckMessage
  \/ CheckGroup

SpecChecks == Init /\ [][NextChecks]_vars

\* The socket on its own: the component opens and closes subscriptions, the
\* user signs out and in, the connection is made, lost and retried.
NextReconnect ==
  \/ ReceiveProps
  \/ SocketOpen
  \/ SocketDrop
  \/ SocketRetry
  \/ SignOut
  \/ SignIn

\* the client's retry timer fires (reconnect: true), and a server that is
\* asked again and again accepts a connection at some time
SpecReconnect ==
  Init /\ [][NextReconnect]_vars /\ WF_vars(SocketRetry) /\ SF_vars(SocketOpen)

\* C21: every connection attempt of the socket, the first one and every
\* retry, sends the credential the store holds at that moment as connection
\* parameters, the absent credential included; and a lost connection can
\* always be retried, whatever the credential is.
CredentialOnEveryAttempt ==
  /\ [][(channel'.socket.state = "Connecting" /\ channel.socket.state # "Connecting")
          => /\ channel'.socket.params = connectionParams(jwt)
             /\ channel'.socket.params.jwt = jwt]_vars
  /\ [](channel.socket.state = "Reconnecting" => ENABLED SocketRetry)

\* C21 witness: the connection had delivered an event, was lost, and is being
\* retried after the user signed out: the attempt carries the absent
\* credential, for the subscriptions still registered.
RetryWithoutCredential ==
  /\ delivered # {}
  /\ channel.socket.state = "Connecting"
  /\ jwt = NoJwt
  /\ channel.socket.params = [jwt |-> NoJwt]
  /\ channel.handles # {}

\* C22: a channel that lost its connection while a subscription is
\* registered goes on to a new connection attempt, so that the loss is no
\* final state, and with a server that accepts connections at some time it
\* gets back to an open connection.
RetriesUntilOpen ==
  /\ (channel.socket.state = "Reconnecting" /\ channel.handles # {})
       ~> channel.socket.state = "Connecting"
  /\ (channel.socket.state = "Reconnecting" /\ channel.handles # {})
       ~> channel.socket.state = "Open"

\* C22 witness: the connection is lost while both subscriptions of the
\* component are registered.
LostWithSubscriptions ==
  /\ channel.socket.state = "Reconnecting"
  /\ channel.socket.live = 0
  /\ \E s \in channel.handles : s.id = groupSubscription
  /\ \E s \in channel.handles : s.id = messagesSubscription

\* C23: an event published while the socket was not open is never handed
\* to a reducer and is never in flight, during the outage or on a later
\* connection; and the data message that reaches the reducer of a registered
\* subscription is for an event no reducer has had before.
NoReplayOfLostEvents ==
  /\ [](delivered \cap lost = {})
  /\ [](\A i \in 1..Len(wire) : <<wire[i].type, wire[i].doc.id>> \notin lost)
  /\ [][(/\ wire # <<>>
          /\ wire' = Tail(wire)
          /\ channel' = channel
          /\ \E s \in channel.handles : s.id = Head(wire).handle)
           => /\ <<Head(wire).type, Head(wire).doc.id>> \notin delivered
              /\ <<Head(wire).type, Head(wire).doc.id>> \in delivered']_vars

\* C23 witness: the first message reached its reducer, the second one was
\* published during an outage; the socket is open again with the messages
\* subscription registered, nothing is in flight and the second message has
\* not been delivered.
SecondEventLostInOutage ==
  /\ delivered = {<<"messageAdded", 1>>}
  /\ <<"messageAdded", 2>> \in lost
  /\ channel.socket.state = "Open"
  /\ wire = <<>>
  /\ \E s \in channel.handles : s.id = messagesSubscription /\ s.topic = {1, 2}

\* the reducer took the event of the call: it found the group, did not
\* throw, and the event's id was not in the list it checks
Accepted(c) ==
  /\ c.fn # "none"
  /\ ~c.out.threw
  /\ c.fn = "messageAdded" => IndexOfId(c.prev, c.doc.to, 1) # 0
  /\ Count(TargetList(c), c.doc.id) = 0

\* C24: the messageAdded reducer, when it accepts an event, returns the
\* group's messages as the new message followed by the previous messages in
\* their order. The state below is one where it did not: the group had
\* messages before, and the list it returned is the new message alone.
AcceptedMessageReplacesList ==
  /\ call.fn = "messageAdded"
  /\ Accepted(call)
  /\ TargetList(call) # <<>>
  /\ LET k == IndexOfId(call.prev, call.doc.to, 1) IN
     /\ call.out.groups[k].messages # <<call.doc>> \o call.prev[k].messages
     /\ call.out.groups[k].messages = <<call.doc>>

\* C25: when the groupAdded reducer or the createGroup update accepts a
\* group, the groups it returns are the previous groups, as they were and
\* in their order, followed by the new group.
NewGroupAppended ==
  (call.fn \in {"groupAdded", "createGroup"} /\ Accepted(call)) =>
    /\ call.out.groups = Append(call.prev, call.doc)
    /\ call.out.groups[Len(call.out.groups)] = call.doc
    /\ SubSeq(call.out.groups, 1, Len(call.prev)) = call.prev

\* C25 witness: the reducer of groupAdded was called with a group that is
\* not among the two cached groups, one of which holds messages.
ThirdGroupAccepted ==
  /\ call.fn = "groupAdded"
  /\ Accepted(call)
  /\ Len(call.prev) = 2
  /\ \E i \in 1..2 : call.prev[i].messages # <<>>

\* the createMessage mutations for group g that have not settled
PendingSends(g) ==
  {op \in PendingOps : op.kind = "createMessage" /\ op.groupId = g}

\* C26: in every group's messages, as confirmed and as shown, there are at
\* most as many entries with the sentinel id as there are createMessage
\* mutations pending for that group.
SentinelsWithinPending ==
  \A g \in GroupIds :
    /\ Count(Visible[g], SentinelId) <= Cardinality(PendingSends(g))
    /\ Count(groupCache[g], SentinelId) <= Cardinality(PendingSends(g))

\* C26 witness: a sentinel entry is shown in a group for which one
\* createMessage is pending, after an earlier createMessage for the group
\* was answered and its message confirmed.
SentinelOverConfirmed ==
  \E g \in GroupIds :
    /\ Count(Visible[g], SentinelId) = 1
    /\ Cardinality(PendingSends(g)) = 1
    /\ groupCache[g] # <<>>
    /\ \E i \in 1..Len(settled) :
         settled[i].kind = "createMessage" /\ settled[i].how = "resolved"

\* C27 as stated: every pending createMessage has its own speculative
\* message in the group's messages as shown, so that two pending sends for
\* a group show two. The state below is one where that fails: two sends
\* with different texts are pending for a group, one sentinel entry is
\* shown, and the text of one of the sends is in no entry.
SecondSpeculativeMissing ==
  \E g \in GroupIds :
    /\ Cardinality(PendingSends(g)) = 2
    /\ Count(Visible[g], SentinelId) = 1
    /\ \E op \in PendingSends(g) :
         \A i \in 1..Len(Visible[g]) :
           IsSentinel(Visible[g][i]) => Visible[g][i].text # op.text

\* C28 as stated: of two accepted writes with different ids to the same
\* cached list, both entities are in the list afterwards, in every order
\* of delivery. The state below is one where that fails: two messageAdded
\* events of other participants for group 1 have both reached the reducer,
\* nothing is in flight, and the group's messages in the user's groups hold
\* the second message and not the first.
FirstEventOverwritten ==
  /\ foreign = 2
  /\ {<<"messageAdded", 1>>, <<"messageAdded", 2>>} \subseteq delivered
  /\ pushes = <<>>
  /\ \E k \in 1..Len(userCache) :
       /\ userCache[k].id = 1
       /\ Count(userCache[k].messages, 2) = 1
       /\ Count(userCache[k].messages, 1) = 0

SignedInWithoutGroupSubscription ==
  /\ propsUser.present
  /\ groupSubscription # 0
  /\ groupSubscription \in unsubscribed.once
  /\ \A s \in channel.handles : s.document # "groupAdded"

\* C31 as stated: whenever the props carry a user with groups, a
\* messageAdded subscription is registered whose topic is the set of the
\* ids of those groups. The state below is one where that fails: the user's
\* groups changed to another set of the same size, the subscription the
\* component holds is registered for the ids of before, and no registered
\* subscription has the ids of now as its topic.
StaleTopicAfterSwap ==
  /\ propsUser.present
  /\ propsUser.groups # <<>>
  /\ \E s \in channel.handles :
       /\ s.id = messagesSubscription
       /\ s.document = "messageAdded"
       /\ s.topic # Ids(propsUser.groups)
       /\ Cardinality(s.topic) = Len(propsUser.groups)
  /\ \A s \in channel.handles :
       s.document = "messageAdded" => s.topic # Ids(propsUser.groups)

\* the subscriptions of one document that are registered on the channel
Active(document) == {s \in channel.handles : s.document = document}

\* C32: at most one messageAdded subscription and at most one groupAdded
\* subscription are registered at any time, and a registered one is the one
\* whose handle the component holds: every messageAdded subscription opened
\* before it has been stopped.
AtMostOneOfEach ==
  /\ Cardinality(Active("messageAdded")) <= 1
  /\ Cardinality(Active("groupAdded")) <= 1
  /\ \A s \in Active("messageAdded") : s.id = messagesSubscription
  /\ \A s \in Active("groupAdded") : s.id = groupSubscription

\* C32 witness: the component has replaced its messages subscription: the
\* old one was stopped, the new one and the groups subscription are the two
\* that are registered.
ReplacedMessagesSubscription ==
  /\ Cardinality(Active("messageAdded")) = 1
  /\ Cardinality(Active("groupAdded")) = 1
  /\ unsubscribed.once # {}
  /\ groupSubscription \notin unsubscribed.once
  /\ \A h \in unsubscribed.once : h < messagesSubscription

\* C33: while the props carry no user no subscription is registered on the
\* channel, and while they carry a user without groups no messageAdded
\* subscription is registered.
NothingActiveWithoutUser ==
  /\ ~propsUser.present => channel.handles = {}
  /\ (propsUser.present /\ propsUser.groups = <<>>) => Active("messageAdded") = {}

\* C33 witness: the user is gone after the component had opened both
\* subscriptions; both were stopped while the socket stays open.
BothStoppedAtSignOut ==
  /\ ~propsUser.present
  /\ groupSubscription # 0 /\ groupSubscription \in unsubscribed.once
  /\ messagesSubscription # 0 /\ messagesSubscription \in unsubscribed.once
  /\ channel.socket.state = "Open"

\* C34 as stated: the messageAdded reducer returns a result, and raises no
\* error, for every event. The state below is one where it raised: the
\* event's group is not among the cached groups, of which there are some.
EventForUnknownGroupThrows ==
  /\ call.fn = "messageAdded"
  /\ call.prev # <<>>
  /\ IndexOfId(call.prev, call.doc.to, 1) = 0
  /\ Threw(call.out)

\* C35: the result of the messageAdded reducer has the groups of the
\* previous result, as many and in the same order, and every group other
\* than the one the event is for is as it was.
OnlyTargetGroupChanged ==
  call.fn = "messageAdded" =>
    /\ Len(call.out.groups) = Len(call.prev)
    /\ \A i \in 1..Len(call.prev) :
         /\ call.out.groups[i].id = call.prev[i].id
         /\ call.prev[i].id # call.doc.to => call.out.groups[i] = call.prev[i]

\* C35 witness: the reducer accepted an event for the second of two cached
\* groups, and the first group holds a message.
EventForSecondGroup ==
  /\ call.fn = "messageAdded"
  /\ Accepted(call)
  /\ Len(call.prev) = 2
  /\ call.prev[2].id = call.doc.to
  /\ call.prev[1].messages # <<>>
  /\ call.out.groups # call.prev

\* C36: what the updates of deleteGroup and leaveGroup return holds no
\* group with the returned id and holds every other group of the previous
\* list, as it was and in the previous order; and the update applied to its
\* own result returns that result.
RemovalExactAndIdempotent ==
  call.fn \in {"deleteGroup", "leaveGroup"} =>
    LET kept == {i \in 1..Len(call.prev) : call.prev[i].id # call.doc.id}
        out == call.out.groups
    IN
    /\ Count(out, call.doc.id) = 0
    /\ Len(out) = Cardinality(kept)
    /\ \E f \in [1..Len(out) -> 1..Len(call.prev)] :
         /\ {f[k] : k \in 1..Len(out)} = kept
         /\ \A k, l \in 1..Len(out) : k < l => f[k] < f[l]
         /\ \A k \in 1..Len(out) : out[k] = call.prev[f[k]]
    /\ call.again = out

\* C36 witness: the update of deleteGroup was called with the id of the
\* first of two cached groups; the second group, which holds a message, is
\* what is left.
FirstOfTwoRemoved ==
  /\ call.fn = "deleteGroup"
  /\ Len(call.prev) = 2
  /\ call.prev[1].id = call.doc.id
  /\ call.prev[2].messages # <<>>
  /\ call.out.groups = <<call.prev[2]>>

\* C37: when the response of a batch is received and some response carries
\* the marker, the afterware dispatches logout() and calls next() after it:
\* no next() comes before a logout(), and the callers settle in a step in
\* which the credential is gone.
LogoutBeforeNext ==
  [][\A b \in network :
       (ReceiveStep(b) /\ \E j \in 1..Len(b.responses) : HasMarker(b.responses[j])) =>
         /\ \E i, j \in 1..Len(effects') :
              i < j /\ effects'[i] = "logout" /\ effects'[j] = "next"
         /\ \A i, j \in 1..Len(effects') :
              (effects'[i] = "next" /\ effects'[j] = "logout") => j < i
         /\ Len(settled') = Len(b.ops)
         /\ jwt' = NoJwt]_vars

\* C37 witness: the last afterware run dispatched logout() and called
\* next(), and a caller of that batch was rejected with the marker.
LoggedOutThenSettled ==
  /\ effects = <<"logout", "next">>
  /\ jwt = NoJwt
  /\ \E i \in 1..Len(settled) :
       /\ settled[i].how = "rejected"
       /\ \E k \in 1..Len(settled[i].errors) : settled[i].errors[k] = Unauthorized

\* C38: for an entity whose id is null none of the three checks reports a
\* duplicate, whatever the list holds, and the reducer or update that asked
\* inserts the entity: the list it returns is one longer and holds one more
\* entity with a null id.
NullIdNeverDuplicate ==
  (call.fn \in {"isDuplicateDocument", "isDuplicateMessage", "isDuplicateGroup"}
   /\ call.doc.id = NullId) =>
    /\ ~call.dup
    /\ Len(call.out.groups) = Len(call.prev) + 1
    /\ Count(call.out.groups, NullId) = Count(call.prev, NullId) + 1

\* C38 witness: isDuplicateDocument was asked about a group with a null id
\* while the list holds a group with a null id and a group with an id; the
\* list returned holds two groups with a null id.
NullIdOntoNullId ==
  /\ call.fn = "isDuplicateDocument"
  /\ call.doc.id = NullId
  /\ Len(call.prev) = 2
  /\ Count(call.prev, NullId) = 1
  /\ Count(call.out.groups, NullId) = 2

====
